---- MODULE Spec2Model ----
(***************************************************************************)
(* Model of the Git Grep search runner of Qt Creator                       *)
(* (src/plugins/git/gitgrep.cpp): GitGrepRunner::processLine, read, exec,  *)
(* run and GitGrep::executeSearch, together with the QFuture handle the    *)
(* caller observes and cancels.                                            *)
(*                                                                         *)
(* Text is a sequence of characters; a character is a one-element string   *)
(* name ("x", "1", "[", ...), with ESC, NUL and LF standing for the        *)
(* escape character, QChar::Null and the newline.                          *)
(***************************************************************************)
EXTENDS Integers, Sequences, FiniteSets, TLC

(***************************************************************************)
(* Bounds of the model.                                                    *)
(***************************************************************************)
\* Longest enumerated line text, counted in tokens (marker or character).
MaxTextTok == 3
\* Most chunks the process output of one run is cut into.
MaxChunks == 3

(***************************************************************************)
(* Characters and the two highlight markers (processLine, lines 90-91).    *)
(***************************************************************************)
ESC == "ESC"
NUL == "NUL"
LF == "LF"

boldRed == <<ESC, "[", "1", ";", "3", "1", "m">>

resetColor == <<ESC, "[", "m">>

(***************************************************************************)
(* QString operations used by processLine, with Qt's argument rules.       *)
(***************************************************************************)
\* Whether pat occurs in s at the 0-based offset i.
MatchesAt(s, pat, i) ==
    /\ i >= 0
    /\ i + Len(pat) <= Len(s)
    /\ \A k \in 1..Len(pat) : s[i + k] = pat[k]

\* QString::indexOf(pat, from): the first 0-based offset >= from, or -1.
IndexOf(s, pat, from) ==
    LET hits == {i \in from..(Len(s) - Len(pat)) : MatchesAt(s, pat, i)}
    IN  IF hits = {} THEN -1
        ELSE CHOOSE i \in hits : \A j \in hits : i <= j

\* QString::left(n): the whole string when n < 0 or n >= size().
Left(s, n) ==
    IF n < 0 \/ n >= Len(s) THEN s ELSE SubSeq(s, 1, n)

\* QString::mid(position, n): empty past the end; everything from position
\* when n is negative or exceeds what is available.
Mid(s, position, n) ==
    IF position > Len(s) THEN <<>>
    ELSE IF position < 0
         THEN IF n < 0 \/ n + position >= Len(s) THEN s
              ELSE IF n + position <= 0 THEN <<>>
              ELSE SubSeq(s, 1, n + position)
    ELSE IF n < 0 \/ n > Len(s) - position THEN SubSeq(s, position + 1, Len(s))
    ELSE SubSeq(s, position + 1, position + n)

\* QString::startsWith.
StartsWith(s, prefix) == MatchesAt(s, prefix, 0)

Digits == {"0", "1", "2", "3", "4", "5", "6", "7", "8", "9"}

DigitValue(c) ==
    CASE c = "0" -> 0 [] c = "1" -> 1 [] c = "2" -> 2 [] c = "3" -> 3
      [] c = "4" -> 4 [] c = "5" -> 5 [] c = "6" -> 6 [] c = "7" -> 7
      [] c = "8" -> 8 [] c = "9" -> 9

RECURSIVE DecimalValue(_)
DecimalValue(s) ==
    IF s = <<>> THEN 0
    ELSE 10 * DecimalValue(SubSeq(s, 1, Len(s) - 1)) + DigitValue(s[Len(s)])

\* QString::toInt(): the decimal value, 0 when the text is not a number.
\* (The character set of the model holds no sign and no white space.)
ToInt(s) ==
    IF s # <<>> /\ \A k \in 1..Len(s) : s[k] \in Digits
    THEN DecimalValue(s)
    ELSE 0

(***************************************************************************)
(* GitGrepRunner::processLine                                              *)
(***************************************************************************)
\* The working directory the runner was constructed with (m_directory).
m_directory == <<"w">>

\* SpliceLoop with the length of a match taken from the start marker instead
\* of from the matched text.
RECURSIVE SpliceLoopRawLength(_, _)
SpliceLoopRawLength(text, matches) ==
    LET matchStart == IndexOf(text, boldRed, 0)
        matchTextStart == matchStart + Len(boldRed)
        matchEnd == IndexOf(text, resetColor, matchTextStart)
        matchLength == matchEnd - matchTextStart
    IN  IF matchStart = -1 THEN [text |-> text, matches |-> matches]
        ELSE IF matchEnd = -1 THEN [text |-> text, matches |-> matches]
        ELSE SpliceLoopRawLength(Left(text, matchStart)
                                   \o Mid(text, matchTextStart, matchLength)
                                   \o Mid(text, matchEnd + Len(resetColor), -1),
                                 Append(matches, <<matchStart, matchEnd - matchStart>>))

\* The marker-splicing loop (lines 102-113): text and matches found so far.
RECURSIVE SpliceLoop(_, _)
SpliceLoop(text, matches) ==
    LET matchStart == IndexOf(text, boldRed, 0)
        matchTextStart == matchStart + Len(boldRed)
        matchEnd == IndexOf(text, resetColor, matchTextStart)
        matchLength == matchEnd - matchTextStart
    IN  IF matchStart = -1 THEN [text |-> text, matches |-> matches]
        ELSE IF matchEnd = -1 THEN [text |-> text, matches |-> matches]
        ELSE SpliceLoop(Left(text, matchStart)
                          \o Mid(text, matchTextStart, matchLength)
                          \o Mid(text, matchEnd + Len(resetColor), -1),
                        Append(matches, <<matchStart, matchLength>>))

\* StripRef without the startsWith test.
StripRefUnchecked(filePath, mref) ==
    IF mref # <<>> THEN Mid(filePath, Len(mref), -1) ELSE filePath

\* The path reported for a raw path (lines 95-96).
StripRef(filePath, mref) ==
    IF mref # <<>> /\ StartsWith(filePath, mref)
    THEN Mid(filePath, Len(mref), -1)
    ELSE filePath

\* QString::lastIndexOf(pat): the last 0-based offset, or -1.
LastIndexOf(s, pat) ==
    LET hits == {i \in 0..(Len(s) - Len(pat)) : MatchesAt(s, pat, i)}
    IN  IF hits = {} THEN -1
        ELSE CHOOSE i \in hits : \A j \in hits : i >= j

\* processLine with the text taken from the last NUL of the line.
processLineLastSeparator(line, mref) ==
    IF line = <<>> THEN <<>>
    ELSE
    LET lineSeparator == IndexOf(line, <<NUL>>, 0)
        filePath == StripRef(Left(line, lineSeparator), mref)
        textSeparator == LastIndexOf(line, <<NUL>>)
        lineNumber == ToInt(Mid(line, lineSeparator + 1,
                                textSeparator - lineSeparator - 1))
        spliced == SpliceLoop(Mid(line, textSeparator + 1, -1), <<>>)
    IN  [k \in 1..Len(spliced.matches) |->
            [fileName |-> m_directory \o <<"/">> \o filePath,
             lineNumber |-> lineNumber,
             matchingLine |-> spliced.text,
             matchStart |-> spliced.matches[k][1],
             matchLength |-> spliced.matches[k][2]]]

\* processLine reporting a line without match as a record of its own.
processLineUnmarkedReported(line, mref) ==
    IF line = <<>> THEN <<>>
    ELSE
    LET lineSeparator == IndexOf(line, <<NUL>>, 0)
        filePath == StripRef(Left(line, lineSeparator), mref)
        textSeparator == IndexOf(line, <<NUL>>, lineSeparator + 1)
        lineNumber == ToInt(Mid(line, lineSeparator + 1,
                                textSeparator - lineSeparator - 1))
        spliced == SpliceLoop(Mid(line, textSeparator + 1, -1), <<>>)
        matches == IF spliced.matches = <<>> THEN <<<<0, 0>>>> ELSE spliced.matches
    IN  [k \in 1..Len(matches) |->
            [fileName |-> m_directory \o <<"/">> \o filePath,
             lineNumber |-> lineNumber,
             matchingLine |-> spliced.text,
             matchStart |-> matches[k][1],
             matchLength |-> matches[k][2]]]

\* The records processLine appends to resultList for one line.
processLine(line, mref) ==
    IF line = <<>> THEN <<>>
    ELSE
    LET lineSeparator == IndexOf(line, <<NUL>>, 0)
        filePath == StripRef(Left(line, lineSeparator), mref)
        textSeparator == IndexOf(line, <<NUL>>, lineSeparator + 1)
        lineNumber == ToInt(Mid(line, lineSeparator + 1,
                                textSeparator - lineSeparator - 1))
        spliced == SpliceLoop(Mid(line, textSeparator + 1, -1), <<>>)
    IN  [k \in 1..Len(spliced.matches) |->
            [fileName |-> m_directory \o <<"/">> \o filePath,
             lineNumber |-> lineNumber,
             matchingLine |-> spliced.text,
             matchStart |-> spliced.matches[k][1],
             matchLength |-> spliced.matches[k][2]]]

(***************************************************************************)
(* QTextStream::readLine over the chunk handed to read().                  *)
(***************************************************************************)
\* The next line of the stream, without its end-of-line character.
FirstLine(t) ==
    LET nl == IndexOf(t, <<LF>>, 0)
    IN  IF nl = -1 THEN t ELSE SubSeq(t, 1, nl)

\* What is left of the stream after readLine.
AfterFirstLine(t) ==
    LET nl == IndexOf(t, <<LF>>, 0)
    IN  IF nl = -1 THEN <<>> ELSE SubSeq(t, nl + 2, Len(t))

\* The records read() gathers from a whole chunk when the future is never
\* cancelled (the loop of lines 127-128 run to the end of the stream).
RECURSIVE ReadLines(_, _)
ReadLines(t, mref) ==
    IF t = <<>> THEN <<>>
    ELSE processLine(FirstLine(t), mref) \o ReadLines(AfterFirstLine(t), mref)

(***************************************************************************)
(* Inputs: the output the external tool writes, and the tree reference.    *)
(***************************************************************************)
\* A token is a marker or a single character.
Expand(tok) ==
    CASE tok = "S" -> boldRed
      [] tok = "E" -> resetColor
      [] OTHER -> <<tok>>

RECURSIVE Flat(_)
Flat(toks) ==
    IF toks = <<>> THEN <<>> ELSE Expand(Head(toks)) \o Flat(Tail(toks))

TextTokens == {"S", "E", "x"}

TokSeqs(n) == UNION {[1..k -> TextTokens] : k \in 0..n}

EnumTexts == {Flat(t) : t \in TokSeqs(MaxTextTok)}

ShortTexts == {Flat(t) : t \in TokSeqs(MaxTextTok - 1)}

\* "foo <start>BAR<end> baz"
FooBarBaz == Flat(<<"f", "o", "o", " ", "S", "B", "A", "R", "E", " ", "b", "a", "z">>)

\* Two highlighted spans, at offsets 1 and 3 of "xyxyy".
TwoSpans == Flat(<<"x", "S", "y", "E", "x", "S", "y", "y", "E">>)

\* One span whose removal joins the surrounding text into a start marker,
\* followed by a second span.
JoinedMarker == Flat(<<ESC, "[", "S", "1", ";", "3", "E", "1", "m", "S", "x", "E">>)

OnePair == Flat(<<"S", "x", "E">>)

\* path NUL lineNumber NUL
HGood == <<"a", NUL, "1", "2", NUL>>

GoodLine == HGood \o Flat(<<"x", "S", "x", "E">>)

ATxt == <<"a", ".", "t", "x", "t">>

Main == <<"m", "a", "i", "n">>

SrcATxt == <<"s", "r", "c", "/">> \o ATxt

\* Inputs of the decoding runs: <<reference, tool output>>.
DecodeInputs ==
    {<<<<>>, HGood \o t \o <<LF>>>> : t \in EnumTexts}
    \cup {<<<<>>, HGood \o t \o <<LF>> \o GoodLine \o <<LF>>>> : t \in ShortTexts}
    \cup {<<<<>>, HGood \o t>> : t \in {TwoSpans, JoinedMarker}}
    \cup {<<<<>>, ATxt \o <<NUL, "1", "0", NUL>> \o FooBarBaz \o <<LF>>>>}
    \cup {<<<<>>, h \o OnePair \o <<LF>>>> :
            h \in {<<>>, <<"a", NUL>>, <<"a", NUL, "x", NUL>>,
                   <<"a", NUL, "7", NUL, "x", NUL>>, <<"m", ":", "a", NUL, "7", NUL>>,
                   <<LF>>}}
    \cup {<<<<"m">>, p \o <<NUL, "7", NUL>> \o OnePair \o <<LF>>>> :
            p \in {<<"m", ":", "a">>, <<"m", ":", "m", ":", "a">>, <<"a">>,
                   <<"m", "a">>, <<"a", "m", ":">>}}
    \cup {<<Main, Main \o <<":">> \o SrcATxt \o <<NUL, "3", NUL>> \o OnePair>>}

\* Inputs of the lifecycle runs.
RunInputs ==
    {<<<<>>, <<>>>>,
     <<<<>>, GoodLine \o <<LF>> \o HGood \o OnePair \o <<LF>>>>,
     <<<<"m">>, <<"m", ":", "a", NUL, "7", NUL>> \o OnePair \o <<LF>>>>}

(***************************************************************************)
(* State.                                                                  *)
(***************************************************************************)
VARIABLES
    ref,          \* GitGrepParameters::ref of the search
    output,       \* everything the tool writes to standard output in this run
    rest,         \* the part of output the process has not emitted yet
    nchunks,      \* chunks emitted so far
    pc,           \* where the worker is: idle, queued, exec, runCommand, read,
                  \* finish, done
    m_ref,        \* GitGrepRunner::m_ref
    stream,       \* read(): what is left of the QTextStream over the chunk
    resultList,   \* read(): the local resultList
    published,    \* the batches reported through the future, in order
    fi,           \* the QFutureInterface: started, canceled, finished
    outcome,      \* what the future reports when it finishes
    cancelCalled, \* the caller called cancel before the future finished
    termRequested,\* VcsCommand::cancel was called
    proc,         \* the external process: none, running, exited
    resp,         \* SynchronousProcessResponse::result of runCommand
    lastLine,     \* the argument of the latest processLine call
    lastRecs,     \* the records that call appended
    chunks,       \* the texts handed to read() so far, in order
    parameters,   \* the FileFindParameters of the search (m_parameters)
    arguments,    \* exec(): the argument list handed to runCommand
    editor,       \* the latest call of GitGrep::openEditor and what it returned
    item,         \* a TestTreeItem of the test tree, with its child items
    modCall,      \* the latest call of TestTreeItem::modifyContent on item
    loop          \* the marker-splicing loop of processLine, taken step by step

vars == <<ref, output, rest, nchunks, pc, m_ref, stream, resultList, published,
          fi, outcome, cancelCalled, termRequested, proc, resp, lastLine, lastRecs,
          chunks, parameters, arguments, editor, item, modCall, loop>>

NoLine == <<"none">>

\* The state of editor before openEditor was called.
NoEditor == [called |-> FALSE]

\* The state of item while no test tree is looked at.
NoItem == [exists |-> FALSE]

\* The state of modCall before modifyContent was called.
NoCall == [called |-> FALSE]

\* The state of loop while processLine is not looked at step by step.
NoLoop == [at |-> "none"]

\* The FileFindParameters of the lifecycle and decoding runs: a plain
\* case-sensitive search for the text x in every file.
DefaultParameters ==
    [caseSensitive |-> TRUE, wholeWord |-> FALSE, isRegex |-> FALSE,
     text |-> <<"x">>, nameFilters |-> <<>>]

Abnormal == {"TerminatedAbnormally", "StartFailed", "Hang"}

Results == {"Finished", "FinishedError"} \cup Abnormal

InitWith(inputs) ==
    /\ \E in \in inputs : /\ ref = in[1]
                          /\ output = in[2]
                          /\ rest = in[2]
    /\ nchunks = 0
    /\ pc = "idle"
    /\ m_ref = <<>>
    /\ stream = <<>>
    /\ resultList = <<>>
    /\ published = <<>>
    /\ fi = [started |-> FALSE, canceled |-> FALSE, finished |-> FALSE]
    /\ outcome = "None"
    /\ cancelCalled = FALSE
    /\ termRequested = FALSE
    /\ proc = "none"
    /\ resp = "none"
    /\ lastLine = NoLine
    /\ lastRecs = <<>>
    /\ chunks = <<>>
    /\ parameters = DefaultParameters
    /\ arguments = <<>>
    /\ editor = NoEditor
    /\ item = NoItem
    /\ modCall = NoCall
    /\ loop = NoLoop

Init == InitWith(RunInputs)

DecodeInit == InitWith(DecodeInputs)

(***************************************************************************)
(* The caller.                                                             *)
(***************************************************************************)
\* GitGrep::executeSearch: Utils::runAsync queues GitGrepRunner::run on a
\* worker and returns the started future.
executeSearch ==
    /\ pc = "idle"
    /\ pc' = "queued"
    /\ fi' = [fi EXCEPT !.started = TRUE]
    /\ UNCHANGED <<item, modCall, loop, parameters, editor, arguments, chunks,
                   ref, output, rest, nchunks, m_ref, stream, resultList, published,
                   outcome, cancelCalled, termRequested, proc, resp, lastLine, lastRecs>>

\* Cancel flipping the Canceled state: a second call undoes the first.
CancelToggles ==
    /\ fi.started
    /\ fi' = [fi EXCEPT !.canceled = ~fi.canceled]
    /\ cancelCalled' = (cancelCalled \/ ~fi.finished)
    /\ UNCHANGED <<item, modCall, loop, parameters, editor, arguments, chunks,
                   ref, output, rest, nchunks, pc, m_ref, stream, resultList,
                   published, outcome, termRequested, proc, resp, lastLine, lastRecs>>

\* QFuture::cancel on the handle executeSearch returned: sets the Canceled
\* state of the shared QFutureInterface (m_fi.isCanceled() is true after it).
Cancel ==
    /\ fi.started
    /\ fi' = [fi EXCEPT !.canceled = TRUE]
    /\ cancelCalled' = (cancelCalled \/ ~fi.finished)
    /\ UNCHANGED <<item, modCall, loop, parameters, editor, arguments, chunks,
                   ref, output, rest, nchunks, pc, m_ref, stream, resultList,
                   published, outcome, termRequested, proc, resp, lastLine, lastRecs>>

(***************************************************************************)
(* The worker: GitGrepRunner::run and exec.                                *)
(***************************************************************************)
\* run(): the runner is constructed and exec() entered.
RunStart ==
    /\ pc = "queued"
    /\ pc' = "exec"
    /\ UNCHANGED <<item, modCall, loop, parameters, editor, arguments, chunks,
                   ref, output, rest, nchunks, m_ref, stream, resultList, published,
                   fi, outcome, cancelCalled, termRequested, proc, resp, lastLine,
                   lastRecs>>

\* A job cancelled while still queued may be finished without being run.
RunSkip ==
    /\ pc = "queued"
    /\ fi.canceled
    /\ pc' = "finish"
    /\ UNCHANGED <<item, modCall, loop, parameters, editor, arguments, chunks,
                   ref, output, rest, nchunks, m_ref, stream, resultList, published,
                   fi, outcome, cancelCalled, termRequested, proc, resp, lastLine,
                   lastRecs>>

\* The literal arguments of exec() (lines 136-146, 153).  An argument is a
\* QString; a literal is kept as one symbol, its characters are never taken
\* apart.
ArgConfig == <<"-c">>

ArgColorMatch == <<"color.grep.match=bold red">>

ArgGrep == <<"grep">>

ArgZN == <<"-zn">>

ArgColorAlways == <<"--color=always">>

ArgIgnoreCase == <<"-i">>

ArgWholeWords == <<"-w">>

ArgPerlRegexp == <<"-P">>

ArgFixedStrings == <<"-F">>

ArgTerminator == <<"--">>

\* BuildArguments with the test of FindCaseSensitively inverted.
BuildArgumentsCaseInverted(p, r) ==
    <<ArgConfig, ArgColorMatch, ArgGrep, ArgZN, ArgColorAlways>>
    \o (IF p.caseSensitive THEN <<ArgIgnoreCase>> ELSE <<>>)
    \o (IF p.wholeWord THEN <<ArgWholeWords>> ELSE <<>>)
    \o (IF p.isRegex THEN <<ArgPerlRegexp>> ELSE <<ArgFixedStrings>>)
    \o <<p.text>>
    \o (IF r # <<>> THEN <<r>> ELSE <<>>)
    \o <<ArgTerminator>> \o p.nameFilters

\* The QStringList exec() builds for runCommand (lines 135-153), from the
\* find flags, the search text, the name filters and GitGrepParameters::ref.
BuildArguments(p, r) ==
    <<ArgConfig, ArgColorMatch, ArgGrep, ArgZN, ArgColorAlways>>
    \o (IF ~p.caseSensitive THEN <<ArgIgnoreCase>> ELSE <<>>)
    \o (IF p.wholeWord THEN <<ArgWholeWords>> ELSE <<>>)
    \o (IF p.isRegex THEN <<ArgPerlRegexp>> ELSE <<ArgFixedStrings>>)
    \o <<p.text>>
    \o (IF r # <<>> THEN <<r>> ELSE <<>>)
    \o <<ArgTerminator>> \o p.nameFilters

\* exec() up to the launch in runCommand (lines 135-162): m_ref is remembered,
\* the watcher and stdOutText are connected, and the process starts or not.
ExecStart(launched) ==
    /\ pc = "exec"
    /\ arguments' = BuildArguments(parameters, ref)
    /\ m_ref' = IF ref # <<>> THEN ref \o <<":">> ELSE m_ref
    /\ pc' = "runCommand"
    /\ proc' = IF launched THEN "running" ELSE "exited"
    /\ resp' = IF launched THEN resp ELSE "StartFailed"
    /\ UNCHANGED <<item, modCall, loop, parameters, editor, chunks,
                   ref, output, rest, nchunks, stream, resultList, published, fi,
                   outcome, cancelCalled, termRequested, lastLine, lastRecs>>

\* The process writes the next n characters of its output; VcsCommand emits
\* stdOutText with them and read(text) is entered (lines 124-126).
StdOut(n) ==
    /\ pc = "runCommand"
    /\ proc = "running"
    /\ n \in 1..Len(rest)
    /\ nchunks + 1 < MaxChunks \/ n = Len(rest)
    /\ stream' = SubSeq(rest, 1, n)
    /\ rest' = SubSeq(rest, n + 1, Len(rest))
    /\ nchunks' = nchunks + 1
    /\ chunks' = Append(chunks, SubSeq(rest, 1, n))
    /\ resultList' = <<>>
    /\ pc' = "read"
    /\ UNCHANGED <<item, modCall, loop, parameters, editor, arguments,
                   ref, output, m_ref, published, fi, outcome, cancelCalled,
                   termRequested, proc, resp, lastLine, lastRecs>>

\* One turn of the loop of read() (lines 127-128).
ReadLine ==
    /\ pc = "read"
    /\ stream # <<>>
    /\ ~fi.canceled
    /\ LET recs == processLine(FirstLine(stream), m_ref)
       IN  /\ lastRecs' = recs
           /\ resultList' = resultList \o recs
    /\ lastLine' = FirstLine(stream)
    /\ stream' = AfterFirstLine(stream)
    /\ UNCHANGED <<item, modCall, loop, parameters, editor, arguments, chunks,
                   ref, output, rest, nchunks, pc, m_ref, published, fi, outcome,
                   cancelCalled, termRequested, proc, resp>>

\* reportResult accepting a result whatever the state of the future.
reportResultUnchecked(batch) ==
    Append(published, batch)

\* reportResult putting the new result in front of the earlier ones.
reportResultAtFront(batch) ==
    IF fi.canceled \/ fi.finished THEN published ELSE <<batch>> \o published

\* QFutureInterface::reportResult: Qt drops a result reported to a future
\* that is already cancelled or finished.
reportResult(batch) ==
    IF fi.canceled \/ fi.finished THEN published ELSE Append(published, batch)

\* ReadEnd without the isEmpty test of line 129.
ReadEndReportsEmpty ==
    /\ pc = "read"
    /\ stream = <<>> \/ fi.canceled
    /\ published' = reportResult(resultList)
    /\ stream' = <<>>
    /\ resultList' = <<>>
    /\ pc' = "runCommand"
    /\ UNCHANGED <<item, modCall, loop, parameters, editor, arguments, chunks,
                   ref, output, rest, nchunks, m_ref, fi, outcome, cancelCalled,
                   termRequested, proc, resp, lastLine, lastRecs>>

\* The loop of read() has ended; a non-empty resultList is reported
\* (lines 129-130) and control returns to runCommand.
ReadEnd ==
    /\ pc = "read"
    /\ stream = <<>> \/ fi.canceled
    /\ published' = IF resultList # <<>> THEN reportResult(resultList) ELSE published
    /\ stream' = <<>>
    /\ resultList' = <<>>
    /\ pc' = "runCommand"
    /\ UNCHANGED <<item, modCall, loop, parameters, editor, arguments, chunks,
                   ref, output, rest, nchunks, m_ref, fi, outcome, cancelCalled,
                   termRequested, proc, resp, lastLine, lastRecs>>

\* DeliverCanceled with the connection of lines 159-160 missing: the signal
\* is delivered and nothing is asked of the command.
DeliverCanceledDropped ==
    /\ pc = "runCommand"
    /\ proc = "running"
    /\ fi.canceled
    /\ ~termRequested
    /\ UNCHANGED vars

\* The watcher's canceled() signal reaches VcsCommand::cancel (lines 157-160)
\* while runCommand waits for the process.
DeliverCanceled ==
    /\ pc = "runCommand"
    /\ proc = "running"
    /\ fi.canceled
    /\ ~termRequested
    /\ termRequested' = TRUE
    /\ UNCHANGED <<item, modCall, loop, parameters, editor, arguments, chunks,
                   ref, output, rest, nchunks, pc, m_ref, stream, resultList,
                   published, fi, outcome, cancelCalled, proc, resp, lastLine,
                   lastRecs>>

\* VcsCommand::cancel terminates the process; runCommand sees it end
\* abnormally, and output not yet emitted is lost.
ProcTerminate ==
    /\ pc = "runCommand"
    /\ proc = "running"
    /\ termRequested
    /\ proc' = "exited"
    /\ resp' = "TerminatedAbnormally"
    /\ UNCHANGED <<item, modCall, loop, parameters, editor, arguments, chunks,
                   ref, output, rest, nchunks, pc, m_ref, stream, resultList,
                   published, fi, outcome, cancelCalled, termRequested, lastLine,
                   lastRecs>>

\* The process ends of its own accord: it exits (after all its output was
\* emitted), crashes, or is given up as hung.
ProcExit(r) ==
    /\ pc = "runCommand"
    /\ proc = "running"
    /\ r \in Results \ {"StartFailed"}
    /\ r \in {"Finished", "FinishedError"} => rest = <<>>
    /\ proc' = "exited"
    /\ resp' = r
    /\ UNCHANGED <<item, modCall, loop, parameters, editor, arguments, chunks,
                   ref, output, rest, nchunks, pc, m_ref, stream, resultList,
                   published, fi, outcome, cancelCalled, termRequested, lastLine,
                   lastRecs>>

\* Classify with FinishedError among the cases that report Canceled.
ClassifyErrorExitCanceled ==
    /\ pc = "runCommand"
    /\ proc = "exited"
    /\ fi' = IF resp \in Abnormal \cup {"FinishedError"} THEN [fi EXCEPT !.canceled = TRUE] ELSE fi
    /\ pc' = "finish"
    /\ UNCHANGED <<item, modCall, loop, parameters, editor, arguments, chunks,
                   ref, output, rest, nchunks, m_ref, stream, resultList, published,
                   outcome, cancelCalled, termRequested, proc, resp, lastLine,
                   lastRecs>>

\* Classify with Hang among the cases that report nothing.
ClassifyHangIgnored ==
    /\ pc = "runCommand"
    /\ proc = "exited"
    /\ fi' = IF resp \in Abnormal \ {"Hang"} THEN [fi EXCEPT !.canceled = TRUE] ELSE fi
    /\ pc' = "finish"
    /\ UNCHANGED <<item, modCall, loop, parameters, editor, arguments, chunks,
                   ref, output, rest, nchunks, m_ref, stream, resultList, published,
                   outcome, cancelCalled, termRequested, proc, resp, lastLine,
                   lastRecs>>

\* Classify reporting Canceled whatever the result.
ClassifyEveryResultCanceled ==
    /\ pc = "runCommand"
    /\ proc = "exited"
    /\ fi' = IF resp \in Results THEN [fi EXCEPT !.canceled = TRUE] ELSE fi
    /\ pc' = "finish"
    /\ UNCHANGED <<item, modCall, loop, parameters, editor, arguments, chunks,
                   ref, output, rest, nchunks, m_ref, stream, resultList, published,
                   outcome, cancelCalled, termRequested, proc, resp, lastLine,
                   lastRecs>>

\* runCommand has returned; the switch of exec() (lines 163-174).
Classify ==
    /\ pc = "runCommand"
    /\ proc = "exited"
    /\ fi' = IF resp \in Abnormal THEN [fi EXCEPT !.canceled = TRUE] ELSE fi
    /\ pc' = "finish"
    /\ UNCHANGED <<item, modCall, loop, parameters, editor, arguments, chunks,
                   ref, output, rest, nchunks, m_ref, stream, resultList, published,
                   outcome, cancelCalled, termRequested, proc, resp, lastLine,
                   lastRecs>>

\* RunFinish putting the job back on the queue after reporting.
RunFinishRequeues ==
    /\ pc = "finish"
    /\ fi' = [fi EXCEPT !.finished = TRUE]
    /\ outcome' = IF fi.canceled THEN "Canceled" ELSE "Completed"
    /\ pc' = "queued"
    /\ UNCHANGED <<item, modCall, loop, parameters, editor, arguments, chunks,
                   ref, output, rest, nchunks, m_ref, stream, resultList, published,
                   cancelCalled, termRequested, proc, resp, lastLine, lastRecs>>

\* run() returns and runAsync reports the future finished: the handle ends,
\* Canceled when the Canceled state is set and Completed otherwise.
RunFinish ==
    /\ pc = "finish"
    /\ fi' = [fi EXCEPT !.finished = TRUE]
    /\ outcome' = IF fi.canceled THEN "Canceled" ELSE "Completed"
    /\ pc' = "done"
    /\ UNCHANGED <<item, modCall, loop, parameters, editor, arguments, chunks,
                   ref, output, rest, nchunks, m_ref, stream, resultList, published,
                   cancelCalled, termRequested, proc, resp, lastLine, lastRecs>>

(***************************************************************************)
(* Specifications.                                                         *)
(***************************************************************************)
Next ==
    \/ executeSearch
    \/ Cancel
    \/ RunStart
    \/ RunSkip
    \/ \E launched \in BOOLEAN : ExecStart(launched)
    \/ \E n \in 1..Len(rest) : StdOut(n)
    \/ ReadLine
    \/ ReadEnd
    \/ DeliverCanceled
    \/ ProcTerminate
    \/ \E r \in Results : ProcExit(r)
    \/ Classify
    \/ RunFinish

\* Every run of a search, with the caller free to cancel at any time.
Spec == Init /\ [][Next]_vars

\* A step the worker thread takes whether or not lines are left to decode:
\* run, exec, the end of read and the event loop of runCommand.
WorkerStep ==
    \/ RunStart
    \/ ExecStart(TRUE)
    \/ ExecStart(FALSE)
    \/ ReadEnd
    \/ DeliverCanceled
    \/ Classify
    \/ RunFinish

\* The worker thread keeps running, and a process asked to stop does stop;
\* the caller, and a process left alone, need not do anything.
Fairness ==
    /\ WF_vars(WorkerStep)
    /\ WF_vars(ProcTerminate)

\* Inputs of the runs checked for progress: two lines, each one match.
FairInputs ==
    {<<<<>>, OnePair \o <<LF>> \o OnePair \o <<LF>>>>}

FairInit == InitWith(FairInputs)

FairSpec == FairInit /\ [][Next]_vars /\ Fairness

\* The runs in which the caller never cancels and the process runs to its
\* own exit: the decoding of the tool's output.
DecodeNext ==
    \/ executeSearch
    \/ RunStart
    \/ ExecStart(TRUE)
    \/ \E n \in 1..Len(rest) : StdOut(n)
    \/ ReadLine
    \/ ReadEnd
    \/ \E r \in {"Finished", "FinishedError"} : ProcExit(r)
    \/ Classify
    \/ RunFinish

DecodeSpec == DecodeInit /\ [][DecodeNext]_vars

(***************************************************************************)
(* The query: every combination of find flags, reference and name filters, *)
(* and the opening of a result in an editor.                               *)
(***************************************************************************)
\* The file contents openEditor meets: none, and two that differ.
Contents == {<<>>, <<"o", "l", "d">>, <<"n", "e", "w">>}

\* What a read of a file or of a revision gives: failure, or the bytes.
ReadOutcomes == {[ok |-> FALSE, bytes |-> <<>>]} \cup {[ok |-> TRUE, bytes |-> c] : c \in Contents}

\* openEditor without the comparison with the file on disk.
openEditorIgnoresDisk(isEnabled, hasPath, show, disk) ==
    /\ pc = "done"
    /\ show \in ReadOutcomes
    /\ disk \in ReadOutcomes
    /\ editor' =
          [called |-> TRUE, isEnabled |-> isEnabled, hasPath |-> hasPath,
           show |-> show, disk |-> disk,
           returned |->
               IF ~isEnabled \/ ref = <<>> \/ ~hasPath THEN "nullptr"
               ELSE IF ~show.ok THEN "nullptr"
               ELSE IF show.bytes = <<>> THEN "nullptr"
               ELSE "editor"]
    /\ UNCHANGED <<item, modCall, loop, parameters, arguments, chunks,
                   ref, output, rest, nchunks, pc, m_ref, stream, resultList,
                   published, fi, outcome, cancelCalled, termRequested, proc, resp,
                   lastLine, lastRecs>>

\* GitGrep::openEditor on an item of the finished search (lines 286-313):
\* show is what synchronousShow gave for ref:./path, disk what readFileUTF8
\* gave for the path; an editor returned holds the bytes of show.
openEditor(isEnabled, hasPath, show, disk) ==
    /\ pc = "done"
    /\ show \in ReadOutcomes
    /\ disk \in ReadOutcomes
    /\ editor' =
          [called |-> TRUE, isEnabled |-> isEnabled, hasPath |-> hasPath,
           show |-> show, disk |-> disk,
           returned |->
               IF ~isEnabled \/ ref = <<>> \/ ~hasPath THEN "nullptr"
               ELSE IF ~show.ok THEN "nullptr"
               ELSE IF show.bytes = <<>> THEN "nullptr"
               ELSE IF disk.ok /\ disk.bytes = show.bytes THEN "nullptr"
               ELSE "editor"]
    /\ UNCHANGED <<item, modCall, loop, parameters, arguments, chunks,
                   ref, output, rest, nchunks, pc, m_ref, stream, resultList,
                   published, fi, outcome, cancelCalled, termRequested, proc, resp,
                   lastLine, lastRecs>>

\* The name filters of the query runs.
FilterLists == {<<>>, <<<<"*", ".", "c">>, <<"*", ".", "h">>>>}

\* The find parameters of the query runs.
QueryParameters ==
    [caseSensitive : BOOLEAN, wholeWord : BOOLEAN, isRegex : BOOLEAN,
     text : {<<"x">>}, nameFilters : FilterLists]

\* Inputs of the query runs: one line with one match, without and with a
\* reference.
QueryInputs ==
    {<<<<>>, <<"a", NUL, "7", NUL>> \o OnePair \o <<LF>>>>,
     <<<<"m">>, <<"m", ":", "a", NUL, "7", NUL>> \o OnePair \o <<LF>>>>}

QueryInit ==
    /\ \E in \in QueryInputs : /\ ref = in[1]
                               /\ output = in[2]
                               /\ rest = in[2]
    /\ nchunks = 0
    /\ pc = "idle"
    /\ m_ref = <<>>
    /\ stream = <<>>
    /\ resultList = <<>>
    /\ published = <<>>
    /\ fi = [started |-> FALSE, canceled |-> FALSE, finished |-> FALSE]
    /\ outcome = "None"
    /\ cancelCalled = FALSE
    /\ termRequested = FALSE
    /\ proc = "none"
    /\ resp = "none"
    /\ lastLine = NoLine
    /\ lastRecs = <<>>
    /\ chunks = <<>>
    /\ parameters \in QueryParameters
    /\ arguments = <<>>
    /\ editor = NoEditor
    /\ item = NoItem
    /\ modCall = NoCall
    /\ loop = NoLoop

\* The query runs: the tool's output arrives in one piece and the process
\* exits with status 0.
QueryNext ==
    \/ executeSearch
    \/ RunStart
    \/ ExecStart(TRUE)
    \/ StdOut(Len(rest))
    \/ ReadLine
    \/ ReadEnd
    \/ ProcExit("Finished")
    \/ Classify
    \/ RunFinish
    \/ \E isEnabled \in BOOLEAN, hasPath \in BOOLEAN, show \in ReadOutcomes, disk \in ReadOutcomes :
           openEditor(isEnabled, hasPath, show, disk)

\* Every query, run to the end without cancel, and its results opened.
QuerySpec == QueryInit /\ [][QueryNext]_vars

(***************************************************************************)
(* The test tree: TestTreeItem (testtreeitem.cpp).                         *)
(***************************************************************************)
\* Most child items a tree of the model has.
MaxChildren == 3

\* The variables of the search, left alone by the steps on the test tree
\* and by the steps of the splicing loop.
grepVars ==
    <<ref, output, rest, nchunks, pc, m_ref, stream, resultList, published, fi,
      outcome, cancelCalled, termRequested, proc, resp, lastLine, lastRecs, chunks,
      parameters, arguments, editor>>

\* No search is under way.
GrepIdle ==
    /\ ref = <<>>
    /\ output = <<>>
    /\ rest = <<>>
    /\ nchunks = 0
    /\ pc = "idle"
    /\ m_ref = <<>>
    /\ stream = <<>>
    /\ resultList = <<>>
    /\ published = <<>>
    /\ fi = [started |-> FALSE, canceled |-> FALSE, finished |-> FALSE]
    /\ outcome = "None"
    /\ cancelCalled = FALSE
    /\ termRequested = FALSE
    /\ proc = "none"
    /\ resp = "none"
    /\ lastLine = NoLine
    /\ lastRecs = <<>>
    /\ chunks = <<>>
    /\ parameters = DefaultParameters
    /\ arguments = <<>>
    /\ editor = NoEditor

\* Qt::CheckState.
CheckStates == {"Unchecked", "PartiallyChecked", "Checked"}

\* The item types that stand for a test class or test case, for a test
\* function, and for a function that cannot be selected.
ClassTypes == {"TestClass", "GTestCase", "GTestCaseParameterized"}

FunctionTypes == {"TestFunction", "GTestName"}

SkippedTypes == {"TestDataFunction", "TestSpecialFunction"}

\* TestTreeItem::TestTreeItem(name, filePath, type) (lines 38-58); m_column
\* is whatever was set on the item since.
NewItem(name, filePath, type, column) ==
    [m_name |-> name,
     m_filePath |-> filePath,
     m_type |-> type,
     m_line |-> 0,
     m_column |-> column,
     m_mainFile |-> "",
     m_referencingFile |-> "",
     m_state |-> "Enabled",
     m_markedForRemoval |-> FALSE,
     m_checked |-> IF type \in ClassTypes \cup FunctionTypes THEN "Checked" ELSE "Unchecked",
     children |-> <<>>]

\* TestTreeItem::checked() of the child c of the item parent (lines 230-247).
checked(c, parent) ==
    IF c.m_type \in ClassTypes \cup FunctionTypes THEN c.m_checked
    ELSE IF c.m_type \in SkippedTypes THEN "Unchecked"
    ELSE parent.m_checked

\* RevalidateFrom counting the data and special functions as well.
RECURSIVE RevalidateFromCountsAll(_, _, _, _)
RevalidateFromCountsAll(it, row, foundChecked, foundUnchecked) ==
    IF row > Len(it.children) THEN (IF foundUnchecked THEN "Unchecked" ELSE "Checked")
    ELSE LET child == it.children[row]
             fc == foundChecked \/ checked(child, it) # "Unchecked"
             fu == foundUnchecked \/ checked(child, it) = "Unchecked"
         IN  IF fc /\ fu THEN "PartiallyChecked"
             ELSE RevalidateFromCountsAll(it, row + 1, fc, fu)

\* revalidateCheckState counting the data and special functions as well.
revalidateCountsAll(it) ==
    IF Len(it.children) = 0 THEN it
    ELSE [it EXCEPT !.m_checked = RevalidateFromCountsAll(it, 1, FALSE, FALSE)]

\* The loop of revalidateCheckState from child row on (lines 277-294): the
\* new m_checked of the item.
RECURSIVE RevalidateFrom(_, _, _, _)
RevalidateFrom(it, row, foundChecked, foundUnchecked) ==
    IF row > Len(it.children) THEN (IF foundUnchecked THEN "Unchecked" ELSE "Checked")
    ELSE LET child == it.children[row]
             fc == foundChecked \/ checked(child, it) # "Unchecked"
             fu == foundUnchecked \/ checked(child, it) = "Unchecked"
         IN  IF child.m_type \in SkippedTypes
             THEN RevalidateFrom(it, row + 1, foundChecked, foundUnchecked)
             ELSE IF fc /\ fu THEN "PartiallyChecked"
             ELSE RevalidateFrom(it, row + 1, fc, fu)

\* TestTreeItem::revalidateCheckState (lines 271-295): the item afterwards.
revalidateCheckState(it) ==
    IF Len(it.children) = 0 THEN it
    ELSE [it EXCEPT !.m_checked = RevalidateFrom(it, 1, FALSE, FALSE)]

\* What setChecked makes of the state it is given (lines 213, 220).
UsedState(checkState) ==
    IF checkState = "Unchecked" THEN "Unchecked" ELSE "Checked"

\* childItem(row)->setChecked(checkState) on the item it (lines 210-227):
\* a function takes the state and has its parent revalidated, a class or
\* test case without children of its own takes the state, any other type is
\* left alone.
SetCheckedChildOf(it, row, checkState) ==
    LET child == it.children[row]
    IN  IF child.m_type \in FunctionTypes
        THEN revalidateCheckState(
                 [it EXCEPT !.children[row].m_checked = UsedState(checkState)])
        ELSE IF child.m_type \in ClassTypes
        THEN [it EXCEPT !.children[row].m_checked = UsedState(checkState)]
        ELSE it

\* The loop of lines 221-222 from child row on.
RECURSIVE SetCheckedRows(_, _, _)
SetCheckedRows(it, row, usedState) ==
    IF row > Len(it.children) THEN it
    ELSE SetCheckedRows(SetCheckedChildOf(it, row, usedState), row + 1, usedState)

\* TestTreeItem::setChecked on an item without parent (lines 208-228): a
\* class or test case hands the state to every child and then takes it; the
\* other types that can stand without parent are left alone.
setChecked(it, checkState) ==
    IF it.m_type \in ClassTypes
    THEN [SetCheckedRows(it, 1, UsedState(checkState))
             EXCEPT !.m_checked = UsedState(checkState)]
    ELSE it

\* The types of the children of an item of type t.
ChildTypes(t) ==
    IF t = "TestClass" THEN {"TestFunction", "TestDataFunction", "TestSpecialFunction"}
    ELSE {"GTestName"}

NewChild(t) == NewItem("f", "a.cpp", t, 0)

\* The trees as they are built: a class or test case with up to MaxChildren
\* children, every item in the state its constructor gave it.
BuiltTrees ==
    {[NewItem("A", "a.cpp", t, 0) EXCEPT !.children = [i \in 1..n |-> NewChild(ts[i])]] :
        <<t, n, ts>> \in
            UNION {UNION {{<<t, n, ts>> : ts \in [1..n -> ChildTypes(t)]}
                            : n \in 0..MaxChildren} : t \in ClassTypes}}

TreeInit ==
    /\ GrepIdle
    /\ item \in BuiltTrees
    /\ modCall = NoCall
    /\ loop = NoLoop

\* setChecked(checkState) on the item.
SetCheckedItem(checkState) ==
    /\ item # NoItem
    /\ item' = setChecked(item, checkState)
    /\ UNCHANGED <<grepVars, modCall, loop>>

\* setChecked(checkState) on the child at row.
SetCheckedChild(row, checkState) ==
    /\ item # NoItem
    /\ row \in 1..Len(item.children)
    /\ item' = SetCheckedChildOf(item, row, checkState)
    /\ UNCHANGED <<grepVars, modCall, loop>>

TreeNext ==
    \/ \E cs \in CheckStates : SetCheckedItem(cs)
    \/ \E row \in 1..MaxChildren, cs \in CheckStates : SetCheckedChild(row, cs)

\* Every sequence of setChecked calls on a built tree.
TreeSpec == TreeInit /\ [][TreeNext]_vars

\* The values the fields of an item take in the runs of modifyContent: the
\* value the constructor call of the model gives, and one other.
FieldValues ==
    [m_filePath |-> {"a.cpp", "b.cpp"},
     m_name |-> {"A", "B"},
     m_line |-> {0, 7},
     m_column |-> {0, 4},
     m_mainFile |-> {"", "main.cpp"},
     m_referencingFile |-> {"", "a.pro"},
     m_type |-> {"TestClass", "GTestCase"},
     m_state |-> {"Enabled", "Disabled"},
     m_markedForRemoval |-> {FALSE, TRUE}]

\* The item the runs of modifyContent start from: a test class with two
\* functions and a data function between them.
BaseItem ==
    [NewItem("A", "a.cpp", "TestClass", 0) EXCEPT
        !.children = <<NewChild("TestFunction"), NewChild("TestDataFunction"),
                       NewChild("TestFunction")>>]

\* The items handed to modifyContent: parse results without children, in up
\* to two fields different from the freshly built item.
ModifiedItems ==
    {it \in [m_name : FieldValues.m_name, m_filePath : FieldValues.m_filePath,
             m_type : FieldValues.m_type, m_line : FieldValues.m_line,
             m_column : FieldValues.m_column, m_mainFile : FieldValues.m_mainFile,
             m_referencingFile : FieldValues.m_referencingFile,
             m_state : FieldValues.m_state,
             m_markedForRemoval : FieldValues.m_markedForRemoval,
             m_checked : {"Checked"}, children : {<<>>}] :
        Cardinality({f \in DOMAIN FieldValues : it[f] # BaseItem[f]}) <= 2}

\* modifyContentOf with a change of the removal mark counted as a
\* modification.
modifyContentCountsMark(it, modified) ==
    [item |->
        [it EXCEPT
            !.m_filePath = IF @ # modified.m_filePath THEN modified.m_filePath ELSE @,
            !.m_name = IF @ # modified.m_name THEN modified.m_name ELSE @,
            !.m_line = IF @ # modified.m_line THEN modified.m_line ELSE @,
            !.m_mainFile = IF @ # modified.m_mainFile THEN modified.m_mainFile ELSE @,
            !.m_referencingFile =
                IF @ # modified.m_referencingFile THEN modified.m_referencingFile ELSE @,
            !.m_type = IF @ # modified.m_type THEN modified.m_type ELSE @,
            !.m_state = IF @ # modified.m_state THEN modified.m_state ELSE @,
            !.m_markedForRemoval =
                IF @ # modified.m_markedForRemoval THEN modified.m_markedForRemoval ELSE @],
     hasBeenModified |->
        \/ it.m_filePath # modified.m_filePath
        \/ it.m_name # modified.m_name
        \/ it.m_line # modified.m_line
        \/ it.m_mainFile # modified.m_mainFile
        \/ it.m_referencingFile # modified.m_referencingFile
        \/ it.m_type # modified.m_type
        \/ it.m_state # modified.m_state
        \/ it.m_markedForRemoval # modified.m_markedForRemoval]

\* TestTreeItem::modifyContent(modified) on the item it (lines 172-206): the
\* item afterwards and the value returned.
modifyContentOf(it, modified) ==
    [item |->
        [it EXCEPT
            !.m_filePath = IF @ # modified.m_filePath THEN modified.m_filePath ELSE @,
            !.m_name = IF @ # modified.m_name THEN modified.m_name ELSE @,
            !.m_line = IF @ # modified.m_line THEN modified.m_line ELSE @,
            !.m_mainFile = IF @ # modified.m_mainFile THEN modified.m_mainFile ELSE @,
            !.m_referencingFile =
                IF @ # modified.m_referencingFile THEN modified.m_referencingFile ELSE @,
            !.m_type = IF @ # modified.m_type THEN modified.m_type ELSE @,
            !.m_state = IF @ # modified.m_state THEN modified.m_state ELSE @,
            !.m_markedForRemoval =
                IF @ # modified.m_markedForRemoval THEN modified.m_markedForRemoval ELSE @],
     hasBeenModified |->
        \/ it.m_filePath # modified.m_filePath
        \/ it.m_name # modified.m_name
        \/ it.m_line # modified.m_line
        \/ it.m_mainFile # modified.m_mainFile
        \/ it.m_referencingFile # modified.m_referencingFile
        \/ it.m_type # modified.m_type
        \/ it.m_state # modified.m_state]

\* modifyContent(modified) on the item; modCall keeps the item as it was
\* before, the argument and the value returned.
modifyContent(modified) ==
    /\ item # NoItem
    /\ modified \in ModifiedItems
    /\ item' = modifyContentOf(item, modified).item
    /\ modCall' = [called |-> TRUE,
                   before |-> item,
                   modified |-> modified,
                   returned |-> modifyContentOf(item, modified).hasBeenModified]
    /\ UNCHANGED <<grepVars, loop>>

ModifyInit ==
    /\ GrepIdle
    /\ item = BaseItem
    /\ modCall = NoCall
    /\ loop = NoLoop

ModifyNext ==
    \/ \E cs \in CheckStates : SetCheckedItem(cs)
    \/ \E row \in 1..MaxChildren, cs \in CheckStates : SetCheckedChild(row, cs)
    \/ \E modified \in ModifiedItems : modifyContent(modified)

\* Every sequence of modifyContent and setChecked calls on one item.
ModifySpec == ModifyInit /\ [][ModifyNext]_vars

(***************************************************************************)
(* The marker-splicing loop of processLine, one iteration a step.          *)
(***************************************************************************)
\* Most tokens (markers or characters) of a text the loop is run on.
MaxLoopTok == 4

LoopTexts == {Flat(t) : t \in TokSeqs(MaxLoopTok)}

\* processLine has reached the loop with the text of the line (line 101).
LoopInit ==
    /\ GrepIdle
    /\ item = NoItem
    /\ modCall = NoCall
    /\ loop \in {[at |-> "loop", input |-> t, text |-> t, matches |-> <<>>] : t \in LoopTexts}

\* LoopIterate leaving the end marker in the text.
LoopIterateKeepsEndMarker ==
    /\ loop.at = "loop"
    /\ LET text == loop.text
           matchStart == IndexOf(text, boldRed, 0)
           matchTextStart == matchStart + Len(boldRed)
           matchEnd == IndexOf(text, resetColor, matchTextStart)
           matchLength == matchEnd - matchTextStart
       IN  /\ matchStart # -1
           /\ matchEnd # -1
           /\ loop' = [loop EXCEPT
                          !.matches = Append(@, <<matchStart, matchLength>>),
                          !.text = Left(text, matchStart)
                                     \o Mid(text, matchTextStart, matchLength)
                                     \o Mid(text, matchEnd, -1)]
    /\ UNCHANGED <<grepVars, item, modCall>>

\* One full iteration of the loop (lines 102-113): a start marker and an end
\* marker after it were found, the match is recorded and both markers are
\* cut out of the text.
LoopIterate ==
    /\ loop.at = "loop"
    /\ LET text == loop.text
           matchStart == IndexOf(text, boldRed, 0)
           matchTextStart == matchStart + Len(boldRed)
           matchEnd == IndexOf(text, resetColor, matchTextStart)
           matchLength == matchEnd - matchTextStart
       IN  /\ matchStart # -1
           /\ matchEnd # -1
           /\ loop' = [loop EXCEPT
                          !.matches = Append(@, <<matchStart, matchLength>>),
                          !.text = Left(text, matchStart)
                                     \o Mid(text, matchTextStart, matchLength)
                                     \o Mid(text, matchEnd + Len(resetColor), -1)]
    /\ UNCHANGED <<grepVars, item, modCall>>

\* The break of lines 104-105: no start marker is left.
LoopBreakNoStart ==
    /\ loop.at = "loop"
    /\ IndexOf(loop.text, boldRed, 0) = -1
    /\ loop' = [loop EXCEPT !.at = "done"]
    /\ UNCHANGED <<grepVars, item, modCall>>

\* The break of QTC_ASSERT (line 108): no end marker follows the start
\* marker found.
LoopBreakNoEnd ==
    /\ loop.at = "loop"
    /\ IndexOf(loop.text, boldRed, 0) # -1
    /\ IndexOf(loop.text, resetColor, IndexOf(loop.text, boldRed, 0) + Len(boldRed)) = -1
    /\ loop' = [loop EXCEPT !.at = "done"]
    /\ UNCHANGED <<grepVars, item, modCall>>

LoopNext ==
    \/ LoopIterate
    \/ LoopBreakNoStart
    \/ LoopBreakNoEnd

\* The loop on every text, the thread running it never stopping for good.
LoopSpec == LoopInit /\ [][LoopNext]_vars /\ WF_vars(LoopNext)

(***************************************************************************)
(* Vocabulary of the properties below: what a line of the wire format      *)
(* path NUL number NUL text means, stated without the decoder.             *)
(***************************************************************************)
\* The 1-based positions of the NUL characters of a line.
NulPositions(line) == {i \in 1..Len(line) : line[i] = NUL}

Least(S) == CHOOSE i \in S : \A j \in S : i <= j

FirstNul(line) == Least(NulPositions(line))

SecondNul(line) == Least(NulPositions(line) \ {FirstNul(line)})

\* A line handed to processLine that has both separators.
HasBothSeparators(line) == line # NoLine /\ Cardinality(NulPositions(line)) >= 2

RawPathOf(line) == SubSeq(line, 1, FirstNul(line) - 1)

NumberFieldOf(line) == SubSeq(line, FirstNul(line) + 1, SecondNul(line) - 1)

TextOf(line) == SubSeq(line, SecondNul(line) + 1, Len(line))

IsDecimal(s) == s # <<>> /\ \A k \in 1..Len(s) : s[k] \in Digits

\* The value of a decimal numeral, most significant digit first.
RECURSIVE NumeralValue(_, _)
NumeralValue(s, acc) ==
    IF s = <<>> THEN acc ELSE NumeralValue(Tail(s), 10 * acc + DigitValue(Head(s)))

HasMarker(s) ==
    \E i \in 0..Len(s) : MatchesAt(s, boldRed, i) \/ MatchesAt(s, resetColor, i)

\* A start marker of s with no end marker after it.
HasUnmatchedStart(s) ==
    \E i \in 0..Len(s) :
        /\ MatchesAt(s, boldRed, i)
        /\ \A j \in (i + Len(boldRed))..Len(s) : ~MatchesAt(s, resetColor, j)

\* One left-to-right pass over a text of the form
\* p0 <start> c1 <end> p1 ... <start> cN <end> pN, where no p and no c holds
\* a marker: ok tells whether the text has that form, plain is p0 c1 p1 ... pN
\* and spans are the <<offset, length>> of c1 .. cN inside plain.
RECURSIVE ParseSpans(_, _)
ParseSpans(text, offset) ==
    LET s == IndexOf(text, boldRed, 0)
        e0 == IndexOf(text, resetColor, 0)
        e == IndexOf(text, resetColor, s + Len(boldRed))
        content == SubSeq(text, s + Len(boldRed) + 1, e)
        tail == ParseSpans(SubSeq(text, e + Len(resetColor) + 1, Len(text)),
                           offset + s + Len(content))
    IN  IF s = -1 THEN [ok |-> e0 = -1, plain |-> text, spans |-> <<>>]
        ELSE IF (e0 # -1 /\ e0 < s) \/ e = -1 \/ HasMarker(content)
             THEN [ok |-> FALSE, plain |-> <<>>, spans |-> <<>>]
        ELSE [ok |-> tail.ok,
              plain |-> SubSeq(text, 1, s) \o content \o tail.plain,
              spans |-> <<<<offset + s, Len(content)>>>> \o tail.spans]

\* The path the search reports for a raw path of the tool, given the
\* configured reference.
ReportedPath(raw) ==
    LET prefix == ref \o <<":">>
    IN  IF ref # <<>> /\ Len(raw) >= Len(prefix) /\ SubSeq(raw, 1, Len(prefix)) = prefix
        THEN SubSeq(raw, Len(prefix) + 1, Len(raw))
        ELSE raw

InDirectory(path) == m_directory \o <<"/">> \o path

\* All records of the published batches, in order.
RECURSIVE Records(_)
Records(batches) ==
    IF batches = <<>> THEN <<>> ELSE Head(batches) \o Records(Tail(batches))

(***************************************************************************)
(* Properties of the decoding (checked under DecodeSpec).                  *)
(***************************************************************************)
\* C1: however the output of the tool is cut into chunks, the records of all
\* published batches, in order, are the records of the output read as one
\* chunk: a chunk boundary inside a line changes nothing.
C1_ChunkingChangesNothing ==
    pc = "done" => Records(published) = ReadLines(output, m_ref)

\* C2: every record processLine appends, for any line, has
\* matchStart + matchLength <= length(lineText), and its lineText holds
\* neither the start marker nor the end marker.
C2_RecordsWithinMarkerFreeText ==
    \A k \in 1..Len(lastRecs) :
        /\ lastRecs[k].matchStart + lastRecs[k].matchLength
              <= Len(lastRecs[k].matchingLine)
        /\ ~HasMarker(lastRecs[k].matchingLine)

ScenarioLine == ATxt \o <<NUL, "1", "0", NUL>> \o FooBarBaz

\* C4: a line path NUL number NUL text is split at its first two NUL
\* characters only: filePath is what precedes the first NUL, lineNumber the
\* decimal value between the first and the second NUL, and everything after
\* the second NUL is the text scanned for markers; the scenario line yields
\* the one record {a.txt, 10, "foo BAR baz", 4, 3}.
C4_SplitAtFirstTwoSeparators ==
    /\ HasBothSeparators(lastLine) =>
          LET scanned == SpliceLoop(TextOf(lastLine), <<>>)
          IN  /\ Len(lastRecs) = Len(scanned.matches)
              /\ \A k \in 1..Len(lastRecs) :
                    /\ lastRecs[k].fileName = InDirectory(ReportedPath(RawPathOf(lastLine)))
                    /\ IsDecimal(NumberFieldOf(lastLine)) =>
                          lastRecs[k].lineNumber = NumeralValue(NumberFieldOf(lastLine), 0)
                    /\ lastRecs[k].matchingLine = scanned.text
                    /\ <<lastRecs[k].matchStart, lastRecs[k].matchLength>>
                          = scanned.matches[k]
    /\ lastLine = ScenarioLine =>
          lastRecs = <<[fileName |-> InDirectory(ATxt),
                        lineNumber |-> 10,
                        matchingLine |-> <<"f", "o", "o", " ", "B", "A", "R", " ",
                                           "b", "a", "z">>,
                        matchStart |-> 4,
                        matchLength |-> 3]>>

\* C4 witness: the scenario line was decoded to its one record.
C4_Witness ==
    /\ lastLine = ScenarioLine
    /\ Len(lastRecs) = 1
    /\ lastRecs[1].lineNumber = 10

\* C5: with a reference r configured, a raw path that begins with r ":" is
\* reported without that prefix, removed once; any other path, and every path
\* when no reference is configured, is reported unchanged.
C5_ReferencePrefixStripped ==
    lastLine # NoLine /\ NulPositions(lastLine) # {} =>
        \A k \in 1..Len(lastRecs) :
            lastRecs[k].fileName = InDirectory(ReportedPath(RawPathOf(lastLine)))

\* C5 witness: with the reference main, main:src/a.txt was reported as
\* src/a.txt.
C5_Witness ==
    /\ ref = Main
    /\ lastLine # NoLine /\ NulPositions(lastLine) # {}
    /\ RawPathOf(lastLine) = Main \o <<":">> \o SrcATxt
    /\ Len(lastRecs) = 1
    /\ lastRecs[1].fileName = InDirectory(SrcATxt)

\* C6: a line with a start marker that no end marker follows yields no record
\* at all (also after well-formed pairs on the same line), and no record
\* carries raw marker text.
C6_UnmatchedStartYieldsNothing ==
    lastLine # NoLine /\ HasUnmatchedStart(lastLine) => lastRecs = <<>>

(***************************************************************************)
(* Properties of the lifecycle (checked under Spec and FairSpec).          *)
(***************************************************************************)
\* C7 as stated: when the process ends with a non-zero exit status and wrote
\* no output, the outcome is Completed with zero records published, never
\* Failed and never Canceled.
C7_AsStated ==
    outcome # "None" /\ resp = "FinishedError" /\ output = <<>> =>
        outcome = "Completed" /\ published = <<>>

\* C7 amended: when the process ends with a non-zero exit status and wrote no
\* output, and the caller did not cancel the handle before it ended, the
\* outcome is Completed with zero records published.
C7_ErrorExitWithoutOutputCompletes ==
    outcome # "None" /\ resp = "FinishedError" /\ output = <<>> /\ ~cancelCalled =>
        outcome = "Completed" /\ published = <<>>

\* C7 witness: an uncancelled run whose process exited non-zero without
\* output has ended.
C7_Witness ==
    /\ outcome = "Completed"
    /\ resp = "FinishedError"
    /\ output = <<>>
    /\ ~cancelCalled
    /\ fi.finished

C10_CancelLeadsToCanceled ==
    (cancelCalled /\ fi.started /\ ~fi.finished)
        ~> (proc # "running" /\ outcome = "Canceled")

\* C10 witness: cancel came after two batches were published, the process
\* was terminated on request and the handle ended Canceled.
C10_Witness ==
    /\ cancelCalled
    /\ Len(published) = 2
    /\ termRequested
    /\ resp = "TerminatedAbnormally"
    /\ outcome = "Canceled"

(***************************************************************************)
(* Properties of cancellation and of the publishing of batches (checked    *)
(* under Spec).                                                            *)
(***************************************************************************)
\* C11: a cancel call does not return before the external process is
\* stopped: in no reachable state has cancel on the running handle returned
\* while the process is still running.
C11_CancelReturnsAfterProcessStopped ==
    cancelCalled => proc # "running"

\* C12: once the handle is cancelled no further batch is published: no step
\* taken from a state whose future is cancelled adds to the published batches,
\* whatever the worker was doing when the cancel arrived.
C12_NoBatchAfterCancel ==
    [][fi.canceled => published' = published]_vars

\* C12 witness: the caller cancelled while read() was decoding; read() has
\* returned, and the records of the last line it decoded are in no published
\* batch.
C12_Witness ==
    /\ cancelCalled
    /\ pc = "runCommand"
    /\ lastRecs # <<>>
    /\ \A i \in 1..Len(Records(published)) : Records(published)[i] # lastRecs[1]

C14_OneBatchPerChunk ==
    /\ [](/\ Len(published) <= Len(chunks)
          /\ \A i \in 1..Len(published) : published[i] # <<>>)
    /\ [][published' # published =>
            /\ pc = "read"
            /\ pc' = "runCommand"
            /\ published' = Append(published, ReadLines(chunks[Len(chunks)], m_ref))]_vars

\* C14 witness: one chunk of two lines was read and published as one batch
\* of two records.
C14_Witness ==
    /\ pc = "runCommand"
    /\ Len(chunks) = 1
    /\ Len(published) = 1
    /\ Len(published[1]) = 2

\* The non-empty record lists of the chunks cs, one per chunk, in the order
\* of the chunks.
RECURSIVE BatchesOf(_, _)
BatchesOf(cs, mref) ==
    IF cs = <<>> THEN <<>>
    ELSE (IF ReadLines(Head(cs), mref) # <<>> THEN <<ReadLines(Head(cs), mref)>> ELSE <<>>)
         \o BatchesOf(Tail(cs), mref)

\* C15: batches are delivered in the order their chunks arrived: a batch is
\* only ever added after the batches delivered before it, which stay as they
\* were, and after each delivery the delivered batches are the batches of the
\* chunks read so far, in chunk order, none twice and none out of place.
C15_BatchesInChunkOrder ==
    [][published' # published =>
          /\ Len(published') = Len(published) + 1
          /\ SubSeq(published', 1, Len(published)) = published
          /\ published' = BatchesOf(chunks, m_ref)]_vars

\* C15 witness: the output came in two or more chunks, two different batches
\* were published and the search is over.
C15_Witness ==
    /\ pc = "done"
    /\ Len(chunks) >= 2
    /\ Len(published) = 2
    /\ published[1] # published[2]

\* The state of the handle in the terms of the lifecycle: Idle until the
\* search is started, the reported outcome once there is one, Draining once
\* the process has ended or cancel was called, Running otherwise.
HandleState ==
    IF ~fi.started THEN "Idle"
    ELSE IF outcome # "None" THEN outcome
    ELSE IF fi.canceled \/ proc = "exited" THEN "Draining"
    ELSE "Running"

Terminal == {"Completed", "Canceled", "Failed"}

\* The steps of the lifecycle, and the steps that stay in a state.
LifecycleSteps ==
    {<<"Idle", "Running">>, <<"Running", "Draining">>}
    \cup {<<"Draining", t>> : t \in Terminal}
    \cup {<<x, x>> : x \in {"Idle", "Running", "Draining"} \cup Terminal}

ArgHas(x) == \E i \in 1..Len(arguments) : arguments[i] = x

ArgCount(x) == Cardinality({i \in 1..Len(arguments) : arguments[i] = x})

FlagLiterals ==
    {ArgConfig, ArgColorMatch, ArgGrep, ArgZN, ArgColorAlways, ArgIgnoreCase,
     ArgWholeWords, ArgPerlRegexp, ArgFixedStrings}

\* The position of the first argument that is not a flag.
PatternPosition ==
    Least({i \in 1..Len(arguments) : arguments[i] \notin FlagLiterals})

\* C17: the argument list is determined by the query: the colour and NUL
\* flags are always there, -i is there exactly when the search is not case
\* sensitive, -w exactly for whole words, -P for a regular expression and -F
\* otherwise (never both), the pattern comes right after the flags, a
\* non-empty reference is the one argument between the pattern and --, and
\* the name filters follow -- in their order.
C17_ArgumentsFollowQuery ==
    pc \notin {"idle", "queued", "exec"} =>
        /\ ArgCount(ArgZN) = 1 /\ ArgCount(ArgColorAlways) = 1
        /\ ArgCount(ArgConfig) = 1 /\ ArgCount(ArgColorMatch) = 1
        /\ ArgHas(ArgIgnoreCase) <=> ~parameters.caseSensitive
        /\ ArgHas(ArgWholeWords) <=> parameters.wholeWord
        /\ ArgHas(ArgPerlRegexp) <=> parameters.isRegex
        /\ ArgHas(ArgFixedStrings) <=> ~parameters.isRegex
        /\ \A f \in FlagLiterals : ArgCount(f) <= 1
        /\ LET pp == PatternPosition
               tp == IF ref # <<>> THEN pp + 2 ELSE pp + 1
           IN  /\ arguments[pp] = parameters.text
               /\ ref # <<>> => arguments[pp + 1] = ref
               /\ Len(arguments) >= tp
               /\ arguments[tp] = ArgTerminator
               /\ SubSeq(arguments, tp + 1, Len(arguments)) = parameters.nameFilters

\* C17 witness: a case-insensitive whole-word regular-expression search at
\* reference m with two name filters was launched with -i -w -P x m -- and
\* the two filters.
C17_Witness ==
    /\ pc = "runCommand"
    /\ arguments = <<ArgConfig, ArgColorMatch, ArgGrep, ArgZN, ArgColorAlways,
                     ArgIgnoreCase, ArgWholeWords, ArgPerlRegexp, <<"x">>, <<"m">>,
                     ArgTerminator, <<"*", ".", "c">>, <<"*", ".", "h">>>>

\* C18: openEditor returns no editor whenever the content at the reference
\* is the same as the content on disk, and returns an editor only when the
\* search had a reference, the content at the reference was retrieved and is
\* not empty, and it differs from the file on disk or that file cannot be
\* read.
C18_EditorOnlyForDifferingRevision ==
    editor.called =>
        /\ (editor.show.ok /\ editor.disk.ok /\ editor.show.bytes = editor.disk.bytes)
              => editor.returned = "nullptr"
        /\ editor.returned = "editor" =>
              /\ ref # <<>>
              /\ editor.show.ok
              /\ editor.show.bytes # <<>>
              /\ ~editor.disk.ok \/ editor.disk.bytes # editor.show.bytes

\* C18 witness: with a reference, the content at the reference was retrieved
\* and differs from the readable file on disk, and an editor was returned.
C18_Witness ==
    /\ editor.called
    /\ ref # <<>>
    /\ editor.show.ok
    /\ editor.disk.ok
    /\ editor.disk.bytes # <<>>
    /\ editor.disk.bytes # editor.show.bytes
    /\ editor.returned = "editor"

(***************************************************************************)
(* Further properties of the decoding (checked under DecodeSpec).          *)
(***************************************************************************)
\* C19: a line without any highlight marker gives no record, an empty line
\* gives no record, and decoding such a line leaves the records gathered from
\* the other lines of the chunk as they are.
C19_UnmarkedLineYieldsNothing ==
    /\ [](/\ lastLine = <<>> => lastRecs = <<>>
          /\ lastLine # NoLine /\ ~HasMarker(lastLine) => lastRecs = <<>>)
    /\ [][(/\ pc = "read"
           /\ stream' # stream
           /\ ~HasMarker(FirstLine(stream))) => resultList' = resultList]_vars

\* C19 witness: read() holds the record of an earlier line of the chunk and
\* has just decoded a non-empty line without marker, which gave nothing.
C19_Witness ==
    /\ pc = "read"
    /\ lastLine # NoLine
    /\ lastLine # <<>>
    /\ ~HasMarker(lastLine)
    /\ lastRecs = <<>>
    /\ resultList # <<>>

\* C20: every published record has a line number of at least 1 and a match
\* length of at least 0, whatever line it was decoded from.
C20_RecordsWellFormed ==
    \A i \in 1..Len(Records(published)) :
        /\ Records(published)[i].lineNumber >= 1
        /\ Records(published)[i].matchLength >= 0

(***************************************************************************)
(* Properties of the test tree (checked under TreeSpec and ModifySpec).    *)
(***************************************************************************)
\* The rows of the children of the item that can be selected.
CheckableRows ==
    {i \in 1..Len(item.children) : item.children[i].m_type \notin SkippedTypes}

\* The item and its function children are all in state cs afterwards.
AllSetTo(cs) ==
    /\ item'.m_checked = cs
    /\ \A i \in 1..Len(item'.children) :
          item'.children[i].m_type \in FunctionTypes => item'.children[i].m_checked = cs

\* C21: for a class or test case with at least one child that is neither a
\* data function nor a special function, after any sequence of setChecked
\* calls on it and on its children, the item is Checked iff none of those
\* children is Unchecked, Unchecked iff all of them are, and PartiallyChecked
\* iff both kinds exist; and setChecked on the item leaves the item and all
\* its function children in the state given, PartiallyChecked taken as
\* Checked.
C21_TriStateConsistent ==
    /\ [](CheckableRows # {} =>
            LET un == {i \in CheckableRows : item.children[i].m_checked = "Unchecked"}
            IN  /\ item.m_checked = "Checked" <=> un = {}
                /\ item.m_checked = "Unchecked" <=> un = CheckableRows
                /\ item.m_checked = "PartiallyChecked" <=> (un # {} /\ un # CheckableRows))
    /\ [][\A cs \in CheckStates :
            SetCheckedItem(cs) =>
                AllSetTo(IF cs = "PartiallyChecked" THEN "Checked" ELSE cs)]_vars

\* C21 witness: a test class with two functions and a data function, one
\* function unchecked by a call on it, the class PartiallyChecked.
C21_Witness ==
    /\ item # NoItem
    /\ item.m_type = "TestClass"
    /\ Len(item.children) = 3
    /\ item.children[1].m_type = "TestFunction"
    /\ item.children[1].m_checked = "Checked"
    /\ item.children[2].m_type = "TestDataFunction"
    /\ item.children[3].m_type = "TestFunction"
    /\ item.children[3].m_checked = "Unchecked"
    /\ item.m_checked = "PartiallyChecked"

\* The fields modifyContent compares.
ContentFields ==
    {"m_filePath", "m_name", "m_line", "m_mainFile", "m_referencingFile", "m_type",
     "m_state"}

\* C22: modifyContent(m) returns true exactly when one of filePath, name,
\* line, mainFile, referencingFile, type or state of the item differs from
\* m's (the removal mark alone does not count); afterwards those fields and
\* the removal mark are m's, so the same call repeated returns false; and
\* the call leaves check state, column and children of the item as they
\* were.
C22_ModifyContent ==
    /\ [](modCall.called =>
            /\ modCall.returned <=>
                  \E f \in ContentFields : modCall.before[f] # modCall.modified[f]
            /\ \A f \in ContentFields \cup {"m_markedForRemoval"} :
                  item[f] = modCall.modified[f])
    /\ [][modCall' # modCall =>
            /\ item'.m_checked = item.m_checked
            /\ item'.m_column = item.m_column
            /\ item'.children = item.children
            /\ (modCall.called /\ modCall'.modified = modCall.modified)
                  => ~modCall'.returned]_vars

\* C22 witness: the item, some of its functions unchecked, was handed an
\* item that differed from it in the removal mark and the column only; the
\* call returned false and the mark was taken over.
C22_Witness ==
    /\ modCall.called
    /\ ~modCall.returned
    /\ modCall.before.m_markedForRemoval # modCall.modified.m_markedForRemoval
    /\ modCall.before.m_column # modCall.modified.m_column
    /\ item.m_markedForRemoval = modCall.modified.m_markedForRemoval
    /\ item.m_checked = "PartiallyChecked"

(***************************************************************************)
(* Properties of the splicing loop (checked under LoopSpec).               *)
(***************************************************************************)
\* The text holds a start marker with an end marker somewhere after it.
HasStartThenEnd(text) ==
    \E i \in 0..Len(text) :
        /\ MatchesAt(text, boldRed, i)
        /\ \A h \in 0..(i - 1) : ~MatchesAt(text, boldRed, h)
        /\ \E j \in (i + Len(boldRed))..Len(text) : MatchesAt(text, resetColor, j)

\* C23: the loop of processLine ends on every text: an iteration takes one
\* start marker and one end marker out of the text, which gets shorter by
\* their lengths, and happens only while the first start marker has an end
\* marker after it; the loop has ended exactly when that is no longer so.
C23_LoopTerminates ==
    /\ <>(loop.at = "done")
    /\ [][(loop.at = "loop" /\ loop'.at = "loop") =>
            /\ HasStartThenEnd(loop.text)
            /\ Len(loop'.text) = Len(loop.text) - Len(boldRed) - Len(resetColor)
            /\ Len(loop'.text) < Len(loop.text)
            /\ Len(loop'.matches) = Len(loop.matches) + 1]_vars
    /\ [](loop.at = "done" => ~HasStartThenEnd(loop.text))
    /\ [][(loop.at = "loop" /\ ~HasStartThenEnd(loop.text)) => loop'.at = "done"]_vars

\* C23 witness: the loop ran twice on a text with two matches, all four
\* markers are gone, and it ended with what processLine uses.
C23_Witness ==
    /\ loop.at = "done"
    /\ Len(loop.matches) = 2
    /\ Len(loop.text) = Len(loop.input) - 2 * (Len(boldRed) + Len(resetColor))
    /\ [text |-> loop.text, matches |-> loop.matches] = SpliceLoop(loop.input, <<>>)

====
